---------------------------- MODULE Spec2Model ----------------------------
(***************************************************************************)
(* A model of regexgen-rs (src/src/lib.rs): the Pattern syntax tree and    *)
(* its compiler to a regex string (Pattern::to_regex), the PatternBuilder  *)
(* (selection buffer, pattern list, persistence in localStorage) and the   *)
(* tokenizer get_words_from_text.                                          *)
(*                                                                         *)
(* Strings are sequences of one-character strings, so that escaping,       *)
(* formatting and joining are computed character by character.             *)
(***************************************************************************)
EXTENDS Integers, Sequences, FiniteSets, TLC

VARIABLES
    patterns,            \* PatternBuilder.patterns, per builder instance
    current_selections,  \* PatternBuilder.current_selections, per instance
    pc,                  \* per instance: "none" before new(), "ready" after
    storage,             \* the localStorage item "regexgen_patterns"
    arg,                 \* argument of the last call of a free function
    ret                  \* what the last call returned and did to the store

vars == <<patterns, current_selections, pc, storage, arg, ret>>

(***************************************************************************)
(* Strings                                                                 *)
(***************************************************************************)
BS == "\\"

RECURSIVE Concat(_)
\* the concatenation of a sequence of strings
Concat(ss) ==
    IF ss = <<>> THEN <<>> ELSE Head(ss) \o Concat(Tail(ss))

RECURSIVE Join(_, _)
\* [String]::join(sep)
Join(ss, sep) ==
    IF ss = <<>> THEN <<>>
    ELSE IF Len(ss) = 1 THEN ss[1]
    ELSE ss[1] \o sep \o Join(Tail(ss), sep)

Digit == <<"0", "1", "2", "3", "4", "5", "6", "7", "8", "9">>

RECURSIVE Decimal(_)
\* the Display form of an unsigned integer, as format!("{}", n) writes it
Decimal(n) ==
    IF n < 10 THEN <<Digit[n + 1]>>
    ELSE Decimal(n \div 10) \o <<Digit[(n % 10) + 1]>>

\* the characters regex::escape puts a backslash before
MetaChars ==
    {BS, ".", "+", "*", "?", "(", ")", "|", "[", "]", "{", "}", "^", "$",
     "#", "&", "-", "~"}

RECURSIVE Escape(_)
\* regex::escape(text)
Escape(s) ==
    IF s = <<>> THEN <<>>
    ELSE (IF Head(s) \in MetaChars THEN <<BS, Head(s)>> ELSE <<Head(s)>>)
         \o Escape(Tail(s))

\* text.contains(' ')
ContainsSpace(s) == \E k \in 1..Len(s) : s[k] = " "

(***************************************************************************)
(* PatternElement, Pattern.  An Option<u32> is <<>> (None) or <<n>>.       *)
(***************************************************************************)
Word(text) == [variant |-> "Word", text |-> text]
Gap(min_words, max_words) ==
    [variant |-> "Gap", min_words |-> min_words, max_words |-> max_words]
Reference(pattern_id) == [variant |-> "Reference", pattern_id |-> pattern_id]
OneOf(options) == [variant |-> "OneOf", options |-> options]

None == <<>>
Some(n) == <<n>>

Sequence(id, name, elements) ==
    [variant |-> "Sequence", id |-> id, name |-> name, elements |-> elements]
Composite(id, name, operator, subs) ==
    [variant |-> "Composite", id |-> id, name |-> name,
     operator |-> operator, patterns |-> subs]

(***************************************************************************)
(* Pattern::to_regex                                                       *)
(***************************************************************************)
WordBoundary == <<BS, "b">>

\* the Gap arm of to_regex
gap_regex(min_words, max_words) ==
    IF min_words = 0 /\ max_words = None
    THEN <<".", "*", "?">>
    ELSE IF max_words # None
         THEN <<"(", "?", ":", BS, "W", "+", BS, "w", "+", ")", "{">>
              \o Decimal(min_words) \o <<",">> \o Decimal(max_words[1])
              \o <<"}">>
         ELSE <<"(", "?", ":", BS, "W", "+", BS, "w", "+", ")", "{">>
              \o Decimal(min_words) \o <<",", "}">>

\* one iteration of the loop over elements: the part pushed for one element
element_regex(element) ==
    CASE element.variant = "Word" ->
            IF ContainsSpace(element.text)
            THEN WordBoundary \o Escape(element.text) \o WordBoundary
            ELSE WordBoundary \o Escape(element.text) \o WordBoundary
      [] element.variant = "Gap" ->
            gap_regex(element.min_words, element.max_words)
      [] element.variant = "OneOf" ->
            WordBoundary \o <<"(", "?", ":">>
            \o Join([k \in 1..Len(element.options) |->
                        Escape(element.options[k])], <<"|">>)
            \o <<")">> \o WordBoundary
      [] element.variant = "Reference" -> <<".", "*">>

\* the Sequence arm: parts.join("")
sequence_regex(elements) ==
    Join([k \in 1..Len(elements) |-> element_regex(elements[k])], <<>>)

\* the Or arm, given the compiled sub-patterns
or_regex(subs) ==
    Join([k \in 1..Len(subs) |-> <<"(">> \o subs[k] \o <<")">>], <<"|">>)

\* a variant of the And arm that closes each lookahead with a further .*
and_regex_padded(subs) ==
    Join([k \in 1..Len(subs) |->
            <<"(", "?", "=", ".", "*">> \o subs[k] \o <<".", "*", ")">>], <<>>)
    \o <<".", "*">>

\* the And arm, given the compiled sub-patterns
and_regex(subs) ==
    Join([k \in 1..Len(subs) |->
            <<"(", "?", "=", ".", "*">> \o subs[k] \o <<")">>], <<>>)
    \o <<".", "*">>

\* the Not arm, given the compiled sub-patterns
not_regex(subs) ==
    IF subs # <<>>
    THEN <<"(", "?", "!", ".", "*">> \o subs[1] \o <<")">>
    ELSE <<>>

RECURSIVE to_regex(_)
to_regex(pattern) ==
    IF pattern.variant = "Sequence"
    THEN sequence_regex(pattern.elements)
    ELSE LET subs == [k \in 1..Len(pattern.patterns) |->
                        to_regex(pattern.patterns[k])]
         IN CASE pattern.operator = "Or" -> or_regex(subs)
              [] pattern.operator = "And" -> and_regex(subs)
              [] pattern.operator = "Not" -> not_regex(subs)

(***************************************************************************)
(* The regex engine (crate regex) as test_pattern uses it.  Regex::new     *)
(* rejects look-around groups and a counted repetition {m,n} with m > n;   *)
(* everything else to_regex can write is accepted.                         *)
(***************************************************************************)
DigitValue(c) == CHOOSE d \in 0..9 : Digit[d + 1] = c

IsDigit(c) == \E d \in 0..9 : Digit[d + 1] = c

RECURSIVE parse_number(_, _, _)
\* the decimal number at s[k..], as [value, next, digits]
parse_number(s, k, acc) ==
    IF k <= Len(s) /\ IsDigit(s[k])
    THEN LET r == parse_number(s, k + 1, acc * 10 + DigitValue(s[k]))
         IN [value |-> r.value, next |-> r.next, digits |-> r.digits + 1]
    ELSE [value |-> acc, next |-> k, digits |-> 0]

RECURSIVE regex_scan(_, _)
regex_scan(s, k) ==
    IF k > Len(s) THEN TRUE
    ELSE IF s[k] = BS THEN regex_scan(s, k + 2)
    ELSE IF s[k] = "(" /\ k + 2 <= Len(s) /\ s[k + 1] = "?"
            /\ s[k + 2] \in {"=", "!"}
    THEN FALSE
    ELSE IF s[k] = "{"
    THEN LET lo == parse_number(s, k + 1, 0)
             hi == parse_number(s, lo.next + 1, 0)
         IN IF hi.digits > 0 /\ lo.value > hi.value
            THEN FALSE
            ELSE regex_scan(s, hi.next + 1)
    ELSE regex_scan(s, k + 1)

\* regex::Regex::new(&regex_str).is_ok()
regex_new_ok(regex_str) == regex_scan(regex_str, 1)

\* what re.find_iter(text).map(|m| (m.start(), m.end())).collect() may be:
\* the engine's answer is not computed here, only its shape, a list of
\* spans inside the text
FindIterResults(text) ==
    {<<>>} \cup {<<sp>> : sp \in {q \in (0..Len(text)) \X (0..Len(text)) :
                                    q[1] <= q[2]}}

(***************************************************************************)
(* serde_json with #[serde(tag = "type")]: a JSON document is             *)
(* [wellformed, array], a JSON object a record carrying "type", and an    *)
(* optional integer [isnull, num].                                         *)
(***************************************************************************)
JsonNull == [isnull |-> TRUE, num |-> 0]
JsonNum(n) == [isnull |-> FALSE, num |-> n]

element_to_json(e) ==
    CASE e.variant = "Word" -> [type |-> "Word", text |-> e.text]
      [] e.variant = "Gap" ->
            [type |-> "Gap", min_words |-> e.min_words,
             max_words |-> IF e.max_words = None THEN JsonNull
                           ELSE JsonNum(e.max_words[1])]
      [] e.variant = "Reference" ->
            [type |-> "Reference", pattern_id |-> e.pattern_id]
      [] e.variant = "OneOf" -> [type |-> "OneOf", options |-> e.options]

element_from_json(j) ==
    CASE j.type = "Word" -> Word(j.text)
      [] j.type = "Gap" ->
            Gap(j.min_words,
                IF j.max_words.isnull THEN None ELSE Some(j.max_words.num))
      [] j.type = "Reference" -> Reference(j.pattern_id)
      [] j.type = "OneOf" -> OneOf(j.options)

RECURSIVE pattern_to_json(_)
pattern_to_json(p) ==
    IF p.variant = "Sequence"
    THEN [type |-> "Sequence", id |-> p.id, name |-> p.name,
          elements |-> [k \in 1..Len(p.elements) |->
                            element_to_json(p.elements[k])]]
    ELSE [type |-> "Composite", id |-> p.id, name |-> p.name,
          operator |-> p.operator,
          patterns |-> [k \in 1..Len(p.patterns) |->
                            pattern_to_json(p.patterns[k])]]

RECURSIVE pattern_json_ok(_)
\* whether Deserialize accepts the object as a Pattern
pattern_json_ok(j) ==
    /\ j.type \in {"Sequence", "Composite"}
    /\ j.type = "Sequence" =>
          \A k \in 1..Len(j.elements) :
              j.elements[k].type \in {"Word", "Gap", "Reference", "OneOf"}
    /\ j.type = "Composite" =>
          /\ j.operator \in {"And", "Or", "Not"}
          /\ \A k \in 1..Len(j.patterns) : pattern_json_ok(j.patterns[k])

RECURSIVE pattern_from_json(_)
pattern_from_json(j) ==
    IF j.type = "Sequence"
    THEN Sequence(j.id, j.name,
                  [k \in 1..Len(j.elements) |->
                      element_from_json(j.elements[k])])
    ELSE Composite(j.id, j.name, j.operator,
                   [k \in 1..Len(j.patterns) |->
                       pattern_from_json(j.patterns[k])])

\* serde_json::to_string(patterns)
to_string(list) ==
    [wellformed |-> TRUE,
     array |-> [k \in 1..Len(list) |-> pattern_to_json(list[k])]]

\* serde_json::from_str(&json).unwrap_or_default()
from_str_or_default(json) ==
    IF json.wellformed
       /\ \A k \in 1..Len(json.array) : pattern_json_ok(json.array[k])
    THEN [k \in 1..Len(json.array) |-> pattern_from_json(json.array[k])]
    ELSE <<>>

(***************************************************************************)
(* localStorage: the item "regexgen_patterns" is absent or holds a text.   *)
(***************************************************************************)
NoItem == [present |-> FALSE, json |-> [wellformed |-> FALSE, array |-> <<>>]]
Item(json) == [present |-> TRUE, json |-> json]
MalformedItem == Item([wellformed |-> FALSE, array |-> <<>>])

\* how a save can end: written, get_local_storage() failed (no window or
\* no local storage), or set_item threw
SaveOutcomes == {"ok", "no_storage", "set_item_err"}

\* a variant of the save that merges: it keeps the stored patterns the
\* saved list does not hold
save_patterns_merging(store, list, outcome) ==
    IF outcome = "ok"
    THEN LET old == IF store.present THEN from_str_or_default(store.json)
                    ELSE <<>>
         IN Item(to_string(
                SelectSeq(old, LAMBDA p : \A k \in 1..Len(list) : list[k] # p)
                \o list))
    ELSE store

\* the storage after save_patterns_to_storage(list) ended with outcome
save_patterns_to_storage(store, list, outcome) ==
    IF outcome = "ok" THEN Item(to_string(list)) ELSE store

\* the number of set_item calls save_patterns_to_storage made
set_item_calls(outcome) == IF outcome = "no_storage" THEN 0 ELSE 1

\* load_patterns_from_storage(), the storage being reachable or not
load_patterns_from_storage(store, available) ==
    IF available /\ store.present
    THEN from_str_or_default(store.json)
    ELSE <<>>

(***************************************************************************)
(* SelectionSpan and the grouping of selections into phrases and gaps.     *)
(* build_sequence_pattern and get_pattern_preview each carry their own     *)
(* copy of the grouping loop; the two copies are modelled separately.      *)
(***************************************************************************)
\* the largest usize of the model: word_index + 1 wraps past it
MaxUsize == 3

SelectionSpan(text, start_index, end_index, word_index) ==
    [text |-> text, start_index |-> start_index, end_index |-> end_index,
     word_index |-> word_index]

\* current.word_index + 1 on usize (wrapping, as a release build computes)
usize_add_one(n) == (n + 1) % (MaxUsize + 1)

RECURSIVE sort_insert(_, _)
\* s with x put after the last entry whose key is <= x's
sort_insert(s, x) ==
    IF s = <<>> THEN <<x>>
    ELSE IF s[Len(s)].word_index <= x.word_index THEN Append(s, x)
    ELSE Append(sort_insert(SubSeq(s, 1, Len(s) - 1), x), s[Len(s)])

RECURSIVE sort_by_key(_)
\* selections.sort_by_key(|s| s.word_index): a stable sort
sort_by_key(s) ==
    IF s = <<>> THEN <<>>
    ELSE sort_insert(sort_by_key(SubSeq(s, 1, Len(s) - 1)), s[Len(s)])

RECURSIVE build_run_end_lax(_, _)
\* a variant of the inner loop that also takes a repeated word_index for
\* an adjacent one
build_run_end_lax(sel, j) ==
    IF j <= Len(sel)
       /\ sel[j].word_index <= usize_add_one(sel[j - 1].word_index)
       /\ sel[j].word_index >= sel[j - 1].word_index
    THEN build_run_end_lax(sel, j + 1)
    ELSE j

RECURSIVE build_run_end(_, _)
\* the inner while loop of build_sequence_pattern: the j it ends with
\* (positions are 1-based here, j one past the run)
build_run_end(sel, j) ==
    IF j <= Len(sel)
       /\ sel[j].word_index = usize_add_one(sel[j - 1].word_index)
    THEN build_run_end(sel, j + 1)
    ELSE j

\* phrase_words of the run sel[i..j-1]
phrase_words(sel, i, j) == [k \in 1..(j - i) |-> sel[i + k - 1].text]

RECURSIVE build_elements(_, _)
\* the outer while loop of build_sequence_pattern from position i on
build_elements(sel, i) ==
    IF i > Len(sel) THEN <<>>
    ELSE LET j == build_run_end(sel, i + 1)
             words == phrase_words(sel, i, j)
             word == IF Len(words) = 1 THEN Word(words[1])
                     ELSE Word(Join(words, <<" ">>))
         IN (IF j <= Len(sel) THEN <<word, Gap(0, None)>> ELSE <<word>>)
            \o build_elements(sel, j)

RECURSIVE preview_run_end_lax(_, _)
\* a variant of the preview's inner loop that also takes a repeated
\* word_index for an adjacent one
preview_run_end_lax(sel, j) ==
    IF j <= Len(sel)
       /\ sel[j].word_index <= usize_add_one(sel[j - 1].word_index)
       /\ sel[j].word_index >= sel[j - 1].word_index
    THEN preview_run_end_lax(sel, j + 1)
    ELSE j

RECURSIVE preview_run_end(_, _)
\* the inner while loop of get_pattern_preview
preview_run_end(sel, j) ==
    IF j <= Len(sel)
       /\ sel[j].word_index = usize_add_one(sel[j - 1].word_index)
    THEN preview_run_end(sel, j + 1)
    ELSE j

Descriptor(type, text) == [type |-> type, text |-> text]

RECURSIVE preview_elements(_, _)
\* the outer while loop of get_pattern_preview from position i on
preview_elements(sel, i) ==
    IF i > Len(sel) THEN <<>>
    ELSE LET j == preview_run_end(sel, i + 1)
             words == phrase_words(sel, i, j)
             desc == IF Len(words) = 1 THEN Descriptor("word", words[1])
                     ELSE Descriptor("phrase", Join(words, <<" ">>))
         IN (IF j <= Len(sel)
             THEN <<desc, Descriptor("and", <<"A", "N", "D">>)>>
             ELSE <<desc>>)
            \o preview_elements(sel, j)

(***************************************************************************)
(* PatternBuilder.  Every operation records in ret what it returned and    *)
(* how many set_item calls it made.                                        *)
(***************************************************************************)
Builders == {"A", "B"}

Ret(op, b, status, error, value, calls) ==
    [op |-> op, builder |-> b, status |-> status, error |-> error,
     value |-> value, set_item_calls |-> calls]

NoRet == Ret("none", "A", "Unit", "", <<>>, 0)
NoArg == <<>>

\* PatternBuilder::new
new(b, available) ==
    /\ pc[b] = "none"
    /\ pc' = [pc EXCEPT ![b] = "ready"]
    /\ patterns' = [patterns EXCEPT
                      ![b] = load_patterns_from_storage(storage, available)]
    /\ current_selections' = [current_selections EXCEPT ![b] = <<>>]
    /\ ret' = Ret("new", b, "Unit", "", <<>>, 0)
    /\ arg' = NoArg
    /\ UNCHANGED storage

add_selection(b, selection) ==
    /\ pc[b] = "ready"
    /\ current_selections' =
          [current_selections EXCEPT ![b] = Append(@, selection)]
    /\ ret' = Ret("add_selection", b, "Unit", "", <<>>, 0)
    /\ arg' = NoArg
    /\ UNCHANGED <<patterns, pc, storage>>

clear_selections(b) ==
    /\ pc[b] = "ready"
    /\ current_selections' = [current_selections EXCEPT ![b] = <<>>]
    /\ ret' = Ret("clear_selections", b, "Unit", "", <<>>, 0)
    /\ arg' = NoArg
    /\ UNCHANGED <<patterns, pc, storage>>

\* the pattern build_sequence_pattern makes of the (non-empty) buffer
built_pattern(selections, name, id) ==
    Sequence(id, name, build_elements(sort_by_key(selections), 1))

\* the selection buffer when build_sequence_pattern returns: sorted in
\* place, and cleared only after the save went through
selections_after_build(selections, outcome) ==
    IF outcome = "ok" THEN <<>> ELSE sort_by_key(selections)

\* what build_sequence_pattern returns
build_result(b, pattern, outcome) ==
    IF outcome = "ok"
    THEN Ret("build_sequence_pattern", b, "Ok", "", to_regex(pattern), 1)
    ELSE Ret("build_sequence_pattern", b, "Err", outcome, <<>>,
             set_item_calls(outcome))

\* a variant of build_sequence_pattern without the check for an empty buffer
build_sequence_pattern_unchecked(b, name, id, outcome) ==
    /\ pc[b] = "ready"
    /\ LET pattern == built_pattern(current_selections[b], name, id)
           list == Append(patterns[b], pattern)
       IN /\ patterns' = [patterns EXCEPT ![b] = list]
          /\ storage' = save_patterns_to_storage(storage, list, outcome)
          /\ current_selections' =
                [current_selections EXCEPT
                   ![b] = selections_after_build(@, outcome)]
          /\ ret' = build_result(b, pattern, outcome)
    /\ arg' = NoArg
    /\ UNCHANGED pc

build_sequence_pattern(b, name, id, outcome) ==
    /\ pc[b] = "ready"
    /\ IF current_selections[b] = <<>>
       THEN /\ ret' = Ret("build_sequence_pattern", b, "Err",
                          "No selections to build pattern from", <<>>, 0)
            /\ UNCHANGED <<patterns, current_selections, storage>>
       ELSE LET pattern == built_pattern(current_selections[b], name, id)
                list == Append(patterns[b], pattern)
            IN /\ patterns' = [patterns EXCEPT ![b] = list]
               /\ storage' = save_patterns_to_storage(storage, list, outcome)
               /\ current_selections' =
                     [current_selections EXCEPT
                        ![b] = selections_after_build(@, outcome)]
               /\ ret' = build_result(b, pattern, outcome)
    /\ arg' = NoArg
    /\ UNCHANGED pc

\* what get_pattern_preview returns
preview_result(b, selections) ==
    IF selections = <<>>
    THEN Ret("get_pattern_preview", b, "Null", "", <<>>, 0)
    ELSE Ret("get_pattern_preview", b, "Value", "",
             preview_elements(sort_by_key(selections), 1), 0)

get_pattern_preview(b) ==
    /\ pc[b] = "ready"
    /\ ret' = preview_result(b, current_selections[b])
    /\ arg' = NoArg
    /\ UNCHANGED <<patterns, current_selections, pc, storage>>

\* a variant of test_pattern's result that answers a rejected regex with an
\* empty match list
test_result_empty_on_error(b, list, pattern_index, matches) ==
    IF pattern_index < Len(list)
    THEN IF regex_new_ok(to_regex(list[pattern_index + 1]))
         THEN Ret("test_pattern", b, "Value", "", matches, 0)
         ELSE Ret("test_pattern", b, "Value", "", <<>>, 0)
    ELSE Ret("test_pattern", b, "Null", "", <<>>, 0)

\* what test_pattern returns, matches being the spans the engine finds
test_result(b, list, pattern_index, matches) ==
    IF pattern_index < Len(list)
    THEN IF regex_new_ok(to_regex(list[pattern_index + 1]))
         THEN Ret("test_pattern", b, "Value", "", matches, 0)
         ELSE Ret("test_pattern", b, "Null", "", <<>>, 0)
    ELSE Ret("test_pattern", b, "Null", "", <<>>, 0)

test_pattern(b, pattern_index, text, matches) ==
    /\ pc[b] = "ready"
    /\ matches \in FindIterResults(text)
    /\ ret' = test_result(b, patterns[b], pattern_index, matches)
    /\ arg' = <<pattern_index>>
    /\ UNCHANGED <<patterns, current_selections, pc, storage>>

\* Vec::remove(index) for an index in range (0-based)
vec_remove(list, index) ==
    [k \in 1..(Len(list) - 1) |-> IF k <= index THEN list[k] ELSE list[k + 1]]

\* a variant of the delete whose range check admits index = len
patterns_after_delete_inclusive(list, index) ==
    IF index <= Len(list) THEN vec_remove(list, index) ELSE list

\* the pattern list after delete_pattern(index)
patterns_after_delete(list, index) ==
    IF index < Len(list) THEN vec_remove(list, index) ELSE list

\* what delete_pattern returns
delete_result(b, list, index, outcome) ==
    IF index < Len(list) /\ outcome # "ok"
    THEN Ret("delete_pattern", b, "Err", outcome, <<>>,
             set_item_calls(outcome))
    ELSE Ret("delete_pattern", b, "Ok", "", <<>>,
             IF index < Len(list) THEN 1 ELSE 0)

delete_pattern(b, index, outcome) ==
    /\ pc[b] = "ready"
    /\ patterns' = [patterns EXCEPT ![b] = patterns_after_delete(@, index)]
    /\ storage' = IF index < Len(patterns[b])
                  THEN save_patterns_to_storage(
                           storage, patterns_after_delete(patterns[b], index),
                           outcome)
                  ELSE storage
    /\ ret' = delete_result(b, patterns[b], index, outcome)
    /\ arg' = <<index>>
    /\ UNCHANGED <<current_selections, pc>>

\* the selection buffer after remove_selection(index)
selections_after_remove(selections, index) ==
    IF index < Len(selections) THEN vec_remove(selections, index)
    ELSE selections

remove_selection(b, index) ==
    /\ pc[b] = "ready"
    /\ current_selections' =
          [current_selections EXCEPT ![b] = selections_after_remove(@, index)]
    /\ ret' = Ret("remove_selection", b, "Unit", "", <<>>, 0)
    /\ arg' = <<index>>
    /\ UNCHANGED <<patterns, pc, storage>>

\* generate_id(), Date::now() and Math::random() * 1000.0 being what they are
generate_id(timestamp, random) ==
    Decimal(timestamp) \o <<"-">> \o Decimal(random)

(***************************************************************************)
(* The builder specification: one PatternBuilder over a store that holds,  *)
(* when the page opens, nothing, a text that is no JSON, or a saved list.  *)
(***************************************************************************)
MaxSel == 1
MaxPatterns == 1

Cat == <<"c", "a", "t">>
Dog == <<"d", "o", "g">>
SeqCat == Sequence(<<"s", "1">>, <<"c">>, <<Word(Cat)>>)
SeqDog == Sequence(<<"s", "2">>, <<"d">>, <<Word(Dog)>>)
SeqBadGap ==
    Sequence(<<"s", "3">>, <<"g">>, <<Word(Cat), Gap(2, Some(1)), Word(Dog)>>)
AndCatDog == Composite(<<"s", "4">>, <<"b">>, "And", <<SeqCat, SeqDog>>)

InitStorages ==
    {NoItem, MalformedItem, Item(to_string(<<SeqCat, SeqBadGap, AndCatDog>>))}

\* the word "a" at two places of a text such as "a b a"
SelInputs ==
    {SelectionSpan(<<"a">>, 0, 1, 0), SelectionSpan(<<"a">>, 4, 5, 2)}

Names == {<<"n">>}
Timestamps == {7}
Randoms == {0}
TestTexts == {<<"a">>}

BuilderInit ==
    /\ patterns = [b \in Builders |-> <<>>]
    /\ current_selections = [b \in Builders |-> <<>>]
    /\ pc = [b \in Builders |-> "none"]
    /\ arg = NoArg
    /\ ret = NoRet

Init ==
    /\ BuilderInit
    /\ storage \in InitStorages

Next ==
    \/ \E available \in BOOLEAN : new("A", available)
    \/ \E selection \in SelInputs :
          /\ Len(current_selections["A"]) < MaxSel
          /\ add_selection("A", selection)
    \/ clear_selections("A")
    \/ \E name \in Names, t \in Timestamps, r \in Randoms,
          outcome \in SaveOutcomes :
          /\ current_selections["A"] = <<>> \/ Len(patterns["A"]) < MaxPatterns
          /\ build_sequence_pattern("A", name, generate_id(t, r), outcome)
    \/ get_pattern_preview("A")
    \/ \E index \in 0..Len(patterns["A"]), text \in TestTexts :
          \E matches \in FindIterResults(text) :
             test_pattern("A", index, text, matches)
    \/ \E index \in 0..Len(patterns["A"]), outcome \in SaveOutcomes :
          delete_pattern("A", index, outcome)
    \/ \E index \in 0..Len(current_selections["A"]) :
          remove_selection("A", index)

Spec == Init /\ [][Next]_vars

(***************************************************************************)
(* Properties of the builder.  A step of an operation is recognised by the *)
(* ret it leaves: every operation writes its own name there.               *)
(***************************************************************************)
EmptySelectionError == "No selections to build pattern from"

\* C3: build_sequence_pattern on an empty selection buffer returns the
\* empty-selection error, makes no set_item call and leaves the pattern
\* list, the selection buffer and the store as they were.
C3_EmptyBuildFails ==
    [][(/\ ret'.op = "build_sequence_pattern"
        /\ current_selections[ret'.builder] = <<>>)
       => /\ ret'.status = "Err"
          /\ ret'.error = EmptySelectionError
          /\ ret'.set_item_calls = 0
          /\ storage' = storage
          /\ patterns' = patterns
          /\ current_selections' = current_selections]_vars

C3_Witness ==
    /\ ret.op = "build_sequence_pattern"
    /\ ret.status = "Err"
    /\ ret.error = EmptySelectionError
    /\ patterns[ret.builder] # <<>>
    /\ storage.present

\* C4: delete_pattern with index >= the length of the pattern list, and
\* remove_selection with index >= the length of the selection buffer, report
\* success, make no set_item call and change neither list nor the store, so
\* that repeating the call changes nothing either.
C4_OutOfRangeNoOp ==
    [][/\ (/\ ret'.op = "delete_pattern"
           /\ arg'[1] >= Len(patterns[ret'.builder]))
          => /\ ret'.status = "Ok"
             /\ ret'.set_item_calls = 0
             /\ UNCHANGED <<patterns, current_selections, storage>>
       /\ (/\ ret'.op = "remove_selection"
           /\ arg'[1] >= Len(current_selections[ret'.builder]))
          => UNCHANGED <<patterns, current_selections, storage>>]_vars

C4_Witness ==
    /\ ret.op = "delete_pattern"
    /\ ret.status = "Ok"
    /\ arg[1] >= Len(patterns[ret.builder])
    /\ Len(patterns[ret.builder]) >= 2
    /\ current_selections[ret.builder] # <<>>

\* C7: when a build_sequence_pattern or delete_pattern call that changed the
\* in-memory pattern list returns, the stored list is the in-memory list.
C7_StoreSynchronized ==
    [][(/\ ret'.op \in {"build_sequence_pattern", "delete_pattern"}
        /\ patterns'[ret'.builder] # patterns[ret'.builder])
       => /\ storage'.present
          /\ from_str_or_default(storage'.json) = patterns'[ret'.builder]]_vars

\* a Gap whose max_words is below its min_words
HasBadGap(pattern) ==
    /\ pattern.variant = "Sequence"
    /\ \E k \in 1..Len(pattern.elements) :
          /\ pattern.elements[k].variant = "Gap"
          /\ pattern.elements[k].max_words # None
          /\ pattern.elements[k].max_words[1] < pattern.elements[k].min_words

\* C8: test_pattern returns null exactly when the index is out of range or
\* the engine rejects the compiled string (as it does for a Gap with
\* max_words < min_words), and a list of spans otherwise; it changes neither
\* the pattern list, nor the selection buffer, nor the store.
C8_TestPatternNull ==
    [][ret'.op = "test_pattern"
       => LET list == patterns[ret'.builder]
              index == arg'[1]
          IN /\ ret'.status \in {"Null", "Value"}
             /\ ret'.status = "Null"
                   <=> \/ index >= Len(list)
                       \/ ~regex_new_ok(to_regex(list[index + 1]))
             /\ (index < Len(list) /\ HasBadGap(list[index + 1]))
                   => ret'.status = "Null"
             /\ ret'.status = "Value"
                   => \A k \in 1..Len(ret'.value) :
                         ret'.value[k][1] <= ret'.value[k][2]
             /\ UNCHANGED <<patterns, current_selections, storage>>]_vars

C8_Witness ==
    /\ ret.op = "test_pattern"
    /\ ret.status = "Null"
    /\ arg[1] < Len(patterns[ret.builder])
    /\ HasBadGap(patterns[ret.builder][arg[1] + 1])

\* C9: a build_sequence_pattern call on a non-empty selection buffer leaves
\* the buffer empty and the pattern list with exactly one new Sequence
\* appended; the list otherwise changes only by an in-range delete_pattern,
\* which removes exactly the pattern at that position.
C9_BuildCommits ==
    [][/\ (/\ ret'.op = "build_sequence_pattern"
           /\ current_selections[ret'.builder] # <<>>)
          => LET b == ret'.builder
             IN /\ current_selections'[b] = <<>>
                /\ Len(patterns'[b]) = Len(patterns[b]) + 1
                /\ SubSeq(patterns'[b], 1, Len(patterns[b])) = patterns[b]
                /\ patterns'[b][Len(patterns'[b])].variant = "Sequence"
       /\ (/\ pc = pc'
           /\ patterns' # patterns
           /\ ret'.op # "build_sequence_pattern")
          => LET b == ret'.builder
                 index == arg'[1]
             IN /\ ret'.op = "delete_pattern"
                /\ index < Len(patterns[b])
                /\ Len(patterns'[b]) = Len(patterns[b]) - 1
                /\ \A k \in 1..Len(patterns'[b]) :
                      patterns'[b][k] =
                         IF k <= index THEN patterns[b][k]
                         ELSE patterns[b][k + 1]]_vars

(***************************************************************************)
(* The grouping specification: one builder over an empty store, its        *)
(* selection buffer filled in any order with any word_index, one build.    *)
(***************************************************************************)
SegMaxSel == 3

The == <<"t", "h", "e">>
Fox == <<"f", "o", "x">>

SegInputs ==
    {SelectionSpan(text, 0, Len(text), word_index) :
        text \in {The, Fox}, word_index \in 0..MaxUsize}

SegInit ==
    /\ BuilderInit
    /\ storage = NoItem

SegNext ==
    \/ \E available \in BOOLEAN : new("A", available)
    \/ \E selection \in SegInputs :
          /\ Len(current_selections["A"]) < SegMaxSel
          /\ patterns["A"] = <<>>
          /\ add_selection("A", selection)
    \/ \E name \in Names, t \in Timestamps, r \in Randoms,
          outcome \in SaveOutcomes :
          /\ patterns["A"] = <<>>
          /\ build_sequence_pattern("A", name, generate_id(t, r), outcome)
    \/ get_pattern_preview("A")

SpecSeg == SegInit /\ [][SegNext]_vars

\* the arrangements of sel in ascending order of word_index
SortedArrangements(sel) ==
    LET n == Len(sel)
        perms == {p \in [1..n -> 1..n] : \A i, j \in 1..n : i # j => p[i] # p[j]}
    IN {[k \in 1..n |-> sel[p[k]]] : p \in
           {q \in perms : \A k \in 1..(n - 1) :
               sel[q[k]].word_index <= sel[q[k + 1]].word_index}}

\* the positions of s at which a run starts: the first, and every one whose
\* word_index is not the word_index before it plus one
RunStarts(s) ==
    {k \in 1..Len(s) : k = 1 \/ s[k].word_index # s[k - 1].word_index + 1}

\* the m-th run of s, as its first and last position
RunBounds(s, m) ==
    LET starts == RunStarts(s)
        first == CHOOSE x \in starts : Cardinality({y \in starts : y <= x}) = m
        later == {y \in starts : y > first}
        last == IF later = {} THEN Len(s)
                ELSE (CHOOSE y \in later : \A z \in later : y <= z) - 1
    IN <<first, last>>

\* elements is [Word, (Gap(0, None), Word)*] over the maximal runs of s
HasRunShape(elements, s) ==
    LET r == Cardinality(RunStarts(s))
    IN /\ Len(elements) = 2 * r - 1
       /\ \A m \in 1..r :
             LET bounds == RunBounds(s, m)
                 texts == [k \in 1..(bounds[2] - bounds[1] + 1) |->
                              s[bounds[1] + k - 1].text]
             IN elements[2 * m - 1] = Word(Join(texts, <<" ">>))
       /\ \A m \in 1..(r - 1) : elements[2 * m] = Gap(0, None)

\* C1: for a non-empty selection buffer build_sequence_pattern makes the
\* elements [Word, (Gap(0, None), Word)*]: over the selections in ascending
\* order of word_index, one Word per maximal run of consecutive word_index
\* values, its text the run's texts joined by single spaces, and one Gap
\* between two runs and nowhere else.
C1_RunsAndGaps ==
    [][(/\ ret'.op = "build_sequence_pattern"
        /\ current_selections[ret'.builder] # <<>>)
       => LET b == ret'.builder
              made == patterns'[b][Len(patterns'[b])]
          IN /\ Len(patterns'[b]) = Len(patterns[b]) + 1
             /\ made.variant = "Sequence"
             /\ \E s \in SortedArrangements(current_selections[b]) :
                   HasRunShape(made.elements, s)]_vars

\* a build of three selections added out of order, two of them adjacent
C1_Witness ==
    /\ ret.op = "build_sequence_pattern"
    /\ Len(patterns["A"]) = 1
    /\ patterns["A"][1].elements = <<Word(The), Gap(0, None),
                                     Word(Fox \o <<" ">> \o The)>>

\* descs describes elements one to one: a word or phrase descriptor with
\* the text of each Word, an and descriptor for each Gap
Describes(descs, elements) ==
    /\ Len(descs) = Len(elements)
    /\ \A k \in 1..Len(elements) :
          IF elements[k].variant = "Word"
          THEN /\ descs[k].type \in {"word", "phrase"}
               /\ descs[k].text = elements[k].text
          ELSE /\ elements[k].variant = "Gap"
               /\ descs[k].type = "and"

\* C6: get_pattern_preview describes, one to one and in order, the elements
\* build_sequence_pattern would make of the same selection buffer, and
\* changes neither the buffer, nor the pattern list, nor the store.
C6_PreviewMatchesBuild ==
    [][ret'.op = "get_pattern_preview"
       => LET sel == current_selections[ret'.builder]
          IN /\ UNCHANGED <<patterns, current_selections, storage>>
             /\ ret'.set_item_calls = 0
             /\ sel = <<>> <=> ret'.status = "Null"
             /\ sel # <<>> =>
                   /\ ret'.status = "Value"
                   /\ Describes(ret'.value,
                                built_pattern(sel, <<>>, <<>>).elements)]_vars

\* a preview of a phrase and a single word added out of order
C6_Witness ==
    /\ ret.op = "get_pattern_preview"
    /\ ret.status = "Value"
    /\ Len(ret.value) = 3
    /\ ret.value[1].type = "phrase"
    /\ ret.value[3].type = "word"
    /\ current_selections["A"][1].word_index
          > current_selections["A"][2].word_index

(***************************************************************************)
(* get_words_from_text.  A text is a sequence of chars; char_indices       *)
(* pairs each char with its byte offset in the UTF-8 text.                 *)
(***************************************************************************)
MaxTextLen == 4

\* a one-byte letter, a two-byte letter and a one-byte separator
TokChars == {"a", "é", " "}

\* char::is_alphanumeric
is_alphanumeric(c) == c \in {"a", "é"}

\* char::len_utf8
len_utf8(c) == IF c = "é" THEN 2 ELSE 1

RECURSIVE byte_offset(_, _)
\* the byte offset char_indices gives the k-th char (k 1-based)
byte_offset(text, k) ==
    IF k = 1 THEN 0 ELSE byte_offset(text, k - 1) + len_utf8(text[k - 1])

RECURSIVE word_last(_, _)
\* the inner while-let loop: the position of the last char it consumes,
\* k being the position of the last char taken so far
word_last(text, k) ==
    IF k + 1 <= Len(text) /\ is_alphanumeric(text[k + 1])
    THEN word_last(text, k + 1)
    ELSE k

WordInfo(text, start_index, end_index, word_index) ==
    [text |-> text, start_index |-> start_index, end_index |-> end_index,
     word_index |-> word_index]

RECURSIVE words_from(_, _, _)
\* the outer while-let loop from position k on
words_from(text, k, word_index) ==
    IF k > Len(text) THEN <<>>
    ELSE IF is_alphanumeric(text[k])
    THEN LET last == word_last(text, k)
             start == byte_offset(text, k)
             end == byte_offset(text, last)
         IN <<WordInfo(SubSeq(text, k, last), start, end + 1, word_index)>>
            \o words_from(text, last + 1, word_index + 1)
    ELSE words_from(text, k + 1, word_index)

get_words_from_text(text) ==
    /\ arg' = <<text>>
    /\ ret' = Ret("get_words_from_text", "A", "Value", "",
                  words_from(text, 1, 0), 0)
    /\ UNCHANGED <<patterns, current_selections, pc, storage>>

RECURSIVE TextsUpTo(_)
TextsUpTo(n) ==
    IF n = 0 THEN {<<>>}
    ELSE LET shorter == TextsUpTo(n - 1)
         IN shorter \cup {Append(t, c) : t \in shorter, c \in TokChars}

TokInit ==
    /\ BuilderInit
    /\ storage = NoItem

TokNext == \E text \in TextsUpTo(MaxTextLen) : get_words_from_text(text)

SpecTok == TokInit /\ [][TokNext]_vars

\* C2: the tokens of get_words_from_text have word_index 0, 1, 2, ... in
\* output order and non-overlapping, increasing ranges, and each token's
\* text is the maximal run of alphanumeric characters at the character
\* positions start_index up to (excluding) end_index of the input.
C2_TokensAtCharPositions ==
    ret.op = "get_words_from_text" =>
       LET text == arg[1]
           tokens == ret.value
       IN /\ \A k \in 1..Len(tokens) : tokens[k].word_index = k - 1
          /\ \A k \in 1..Len(tokens) :
                /\ tokens[k].start_index < tokens[k].end_index
                /\ tokens[k].end_index <= Len(text)
                /\ tokens[k].text =
                      SubSeq(text, tokens[k].start_index + 1,
                             tokens[k].end_index)
                /\ \A i \in 1..Len(tokens[k].text) :
                      is_alphanumeric(tokens[k].text[i])
                /\ tokens[k].start_index > 0 =>
                      ~is_alphanumeric(text[tokens[k].start_index])
                /\ tokens[k].end_index < Len(text) =>
                      ~is_alphanumeric(text[tokens[k].end_index + 1])
          /\ \A k \in 1..(Len(tokens) - 1) :
                tokens[k].end_index <= tokens[k + 1].start_index

(***************************************************************************)
(* The compiler specification: to_regex applied to patterns of every       *)
(* variant.                                                                *)
(***************************************************************************)
MaxElements == 2

ElementInputs ==
    {Word(Cat), Word(Dog), Word(<<"a", ".", "b">>), Word(The \o <<" ">> \o Fox),
     Gap(0, None), Gap(1, Some(2)), Gap(2, None),
     OneOf(<<Cat, Dog>>), Reference(<<"s", "1">>)}

RECURSIVE ElementLists(_)
ElementLists(n) ==
    IF n = 0 THEN {<<>>}
    ELSE LET shorter == ElementLists(n - 1)
         IN shorter \cup {Append(l, e) : l \in shorter, e \in ElementInputs}

SubPatternLists ==
    {<<>>, <<SeqCat>>, <<SeqDog>>, <<SeqCat, SeqDog>>, <<SeqDog, SeqCat>>,
     <<SeqBadGap, AndCatDog>>}

PatternInputs ==
    {Sequence(<<"i">>, <<"n">>, l) : l \in ElementLists(MaxElements)}
    \cup {Composite(<<"i">>, <<"n">>, op, subs) :
             op \in {"And", "Or", "Not"}, subs \in SubPatternLists}

\* a call of Pattern::to_regex
compile(pattern) ==
    /\ arg' = <<pattern>>
    /\ ret' = Ret("to_regex", "A", "Value", "", to_regex(pattern), 0)
    /\ UNCHANGED <<patterns, current_selections, pc, storage>>

RegexInit ==
    /\ BuilderInit
    /\ storage = NoItem

RegexNext == \E pattern \in PatternInputs : compile(pattern)

SpecRegex == RegexInit /\ [][RegexNext]_vars

IsAndOfCatDog(pattern) ==
    /\ pattern.variant = "Composite"
    /\ pattern.operator = "And"
    /\ pattern.patterns = <<SeqCat, SeqDog>>

\* C5 as stated: And[Sequence[Word cat], Sequence[Word dog]] compiles to
\* (?=.*\bcat\b.*)(?=.*\bdog\b.*).*
C5_AndCatDogAsStated ==
    (ret.op = "to_regex" /\ IsAndOfCatDog(arg[1])) =>
       ret.value =
          <<"(", "?", "=", ".", "*", BS, "b", "c", "a", "t", BS, "b", ".", "*",
            ")",
            "(", "?", "=", ".", "*", BS, "b", "d", "o", "g", BS, "b", ".", "*",
            ")",
            ".", "*">>

\* the lookahead group of one compiled sub-pattern
Lookahead(compiled) == <<"(", "?", "=", ".", "*">> \o compiled \o <<")">>

\* C5, amended: And[Sequence[Word cat], Sequence[Word dog]] compiles to
\* (?=.*\bcat\b)(?=.*\bdog\b).* ; every And compiles to one lookahead group
\* (?=.*<compiled sub-pattern>) per sub-pattern, in declaration order,
\* followed by one trailing .*
C5_AndLookaheads ==
    (/\ ret.op = "to_regex"
     /\ arg[1].variant = "Composite"
     /\ arg[1].operator = "And") =>
       /\ ret.value =
             Concat([k \in 1..Len(arg[1].patterns) |->
                        Lookahead(to_regex(arg[1].patterns[k]))])
             \o <<".", "*">>
       /\ IsAndOfCatDog(arg[1]) =>
             ret.value =
                <<"(", "?", "=", ".", "*", BS, "b", "c", "a", "t", BS, "b", ")",
                  "(", "?", "=", ".", "*", BS, "b", "d", "o", "g", BS, "b", ")",
                  ".", "*">>

C5_Witness ==
    /\ ret.op = "to_regex"
    /\ IsAndOfCatDog(arg[1])
    /\ Len(ret.value) = 28

(***************************************************************************)
(* The shared-store specification: two PatternBuilder instances (two host  *)
(* UI contexts) over one localStorage, their calls interleaved.  Each      *)
(* instance names its patterns after itself, to tell them apart.           *)
(***************************************************************************)
TwoInitStorages == {NoItem, Item(to_string(<<SeqCat>>))}

TwoSelInputs == {SelectionSpan(<<"a">>, 0, 1, 0)}

NameOf(b) == <<b>>

TwoOutcomes == {"ok", "no_storage"}

TwoNext ==
    \E b \in Builders :
       \/ \E available \in BOOLEAN : new(b, available)
       \/ \E selection \in TwoSelInputs :
             /\ current_selections[b] = <<>>
             /\ add_selection(b, selection)
       \/ \E t \in Timestamps, r \in Randoms, outcome \in TwoOutcomes :
             /\ current_selections[b] = <<>> \/ Len(patterns[b]) <= MaxPatterns
             /\ build_sequence_pattern(b, NameOf(b), generate_id(t, r), outcome)
       \/ \E index \in 0..Len(patterns[b]), outcome \in TwoOutcomes :
             delete_pattern(b, index, outcome)

TwoInit ==
    /\ BuilderInit
    /\ storage \in TwoInitStorages

SpecTwo == TwoInit /\ [][TwoNext]_vars

\* the patterns of a list, as a set
Members(list) == {list[k] : k \in 1..Len(list)}

\* the stored list, as load would read it
StoredList == IF storage.present THEN from_str_or_default(storage.json) ELSE <<>>

\* C10: two instances sharing one store interact only through load at
\* construction and save on add/delete: a step of one instance never changes
\* the other's pattern list or selection buffer, and the store changes only
\* in a save, which replaces the whole stored list by the saving instance's
\* in-memory list, nothing of the former stored list being merged in; so a
\* pattern the other instance had saved and the saver does not hold is not
\* in the store afterwards.
C10_LastWriteWins ==
    [][LET b == ret'.builder
       IN /\ \A o \in Builders \ {b} :
                /\ patterns'[o] = patterns[o]
                /\ current_selections'[o] = current_selections[o]
          /\ storage' # storage =>
                /\ ret'.op \in {"build_sequence_pattern", "delete_pattern"}
                /\ ret'.set_item_calls = 1
          /\ (/\ ret'.op \in {"build_sequence_pattern", "delete_pattern"}
              /\ ret'.status = "Ok"
              /\ ret'.set_item_calls = 1)
             => /\ storage' = Item(to_string(patterns'[b]))
                /\ \A p \in Members(StoredList) \ Members(patterns'[b]) :
                      p \notin Members(StoredList')
          /\ ret'.op = "new" =>
                patterns'[b] \in {<<>>, StoredList}]_vars

\* both instances loaded the stored list and each added a pattern to it; B
\* saved last, and the store holds B's pattern and not A's
C10_Witness ==
    /\ pc["A"] = "ready" /\ pc["B"] = "ready"
    /\ Len(patterns["A"]) = 2 /\ Len(patterns["B"]) = 2
    /\ patterns["A"][1] = SeqCat /\ patterns["A"][2].name = NameOf("A")
    /\ patterns["B"][1] = SeqCat /\ patterns["B"][2].name = NameOf("B")
    /\ ret.op = "build_sequence_pattern" /\ ret.builder = "B"
    /\ ret.status = "Ok"
    /\ StoredList = patterns["B"]
    /\ patterns["A"][2] \notin Members(StoredList)

=============================================================================
